---- MODULE Spec2Model ----
(***************************************************************************)
(* A model of the installation registry and of the provisioning steps of   *)
(* idf-im-lib:                                                             *)
(*   src/src/idf_config.rs      IdfInstallation, IdfConfig and its methods *)
(*   src/src/version_manager.rs select / rename / remove of one version    *)
(*   src/src/utils.rs           remove_directory_all, with_retry,          *)
(*                              filter_subpaths, parse_tool_set_config     *)
(*   src/src/lib.rs             ensure_path, verify_file_checksum,         *)
(*                              download_file, shallow_clone,              *)
(*                              update_submodules, get_esp_idf_by_tag_name *)
(*   src/src/idf_tools.rs       change_links_donwanload_mirror             *)
(*   src/src/settings.rs        Settings::save_esp_ide_json                *)
(* Each part has its own specification over the variables it uses; the     *)
(* variables of the other parts stay at their idle values.                 *)
(* Strings are kept as strings; the registry file is kept as the JSON      *)
(* value serde writes (wire names gitPath, idfInstalled, ...), so that     *)
(* writing and reading the file are two conversions and not the identity.  *)
(***************************************************************************)
EXTENDS Integers, Sequences, FiniteSets, TLC

VARIABLES config, file, disk, calls, last, retry, download, repo, writers, sum

vars == <<config, file, disk, calls, last, retry, download, repo, writers, sum>>

\* the registry, its file and the disk; and the state of the running calls of
\* with_retry, download_file, shallow_clone, to_file and verify_file_checksum
registryVars == <<config, file, disk, calls, last>>
callVars == <<retry, download, repo, writers, sum>>

(***************************************************************************)
(* Bounds of the model.                                                    *)
(***************************************************************************)
\* longest idf_installed of an initial in-memory registry (registry specs)
MaxInstalled == 2
\* longest list of installations of an initial registry and of an initial
\* file of the persistence spec
MaxMemInstalled == 1
\* longest idfInstalled of an initial registry file of the version_manager spec
MaxFileInstalled == 2
\* cap on the length of idfInstalled a write may produce (to_file only grows it)
MaxFileLen == 4
\* number of version_manager calls of one run
MaxCalls == 2

(***************************************************************************)
(* The strings the model draws from.  A name may equal another             *)
(* installation's id ("a"), two installations may share a name, and an id  *)
(* may be the empty string: IdfInstallation's fields are plain Strings.    *)
(***************************************************************************)
Ids == {"", "a", "b"}
Names == {"a", "v1"}
Identifiers == {"", "a", "b", "v1", "zz"}
SelectedIds == {"", "a", "b", "zz"}
\* the identifiers passed to version_manager (the registry files of the model
\* hold no empty id)
VersionIdentifiers == {"a", "b", "v1", "zz"}
InstallPaths == {"/i1/esp-idf", "/i2/esp-idf"}
GitPath == "/usr/bin/git"
PythonPath == "/tools/python/bin/python3"
ToolsPath == "/tools"
ScriptPath == "/activate_idf.sh"

\* struct IdfInstallation
IdfInstallation ==
    [activation_script : {ScriptPath}, id : Ids, idf_tools_path : {ToolsPath},
     name : Names, path : InstallPaths, python : {PythonPath}]

\* the installations of the file-level specifications: non-empty ids, one
\* source tree per id
FileInstallation ==
    {i \in IdfInstallation :
        \/ i.id = "a" /\ i.path = "/i1/esp-idf"
        \/ i.id = "b" /\ i.path = "/i2/esp-idf"}

SeqsUpTo(S, n) == UNION {[1..k -> S] : k \in 0..n}

\* struct IdfConfig
IdfConfig(installations, n, selected) ==
    [git_path : {GitPath}, idf_installed : SeqsUpTo(installations, n),
     idf_selected_id : selected]

EmptyConfig == [git_path |-> "", idf_installed |-> <<>>, idf_selected_id |-> ""]

(***************************************************************************)
(* Vec helpers: Iterator::find / Iterator::position return the FIRST       *)
(* element the predicate accepts; 0 stands for None.                        *)
(***************************************************************************)
First(I) == IF I = {} THEN 0 ELSE CHOOSE k \in I : \A j \in I : k <= j

\* Vec::remove(index)
RemoveAt(s, k) == [j \in 1..(Len(s) - 1) |-> IF j < k THEN s[j] ELSE s[j + 1]]

\* the closure |install| install.id == identifier || install.name == identifier
Matches(install, identifier) == install.id = identifier \/ install.name = identifier

\* .iter().position(|install| ...) / .iter().find(|install| ...): the index of
\* the first installation the identifier matches
Position(installed, identifier) ==
    First({k \in 1..Len(installed) : Matches(installed[k], identifier)})

\* no two entries of a list of installations have the same id
DistinctIds(installed) ==
    \A j, k \in 1..Len(installed) : j # k => installed[j].id # installed[k].id

(***************************************************************************)
(* IdfConfig's in-memory methods.  Each returns the registry it leaves     *)
(* (self) and the value it returns (ret).                                  *)
(***************************************************************************)
\* Option<&IdfInstallation>: <<>> is None, <<i>> is Some(i)
get_selected_installation(self) ==
    LET k == First({j \in 1..Len(self.idf_installed) :
                      self.idf_installed[j].id = self.idf_selected_id})
    IN  IF k = 0 THEN <<>> ELSE <<self.idf_installed[k]>>

\* mutant: push_str instead of assignment, the new name is appended to the old
update_installation_name_push_str(self, identifier, new_name) ==
    LET k == Position(self.idf_installed, identifier)
    IN  IF k # 0
        THEN [self |-> [self EXCEPT !.idf_installed[k].name = @ \o new_name],
              ret |-> TRUE]
        ELSE [self |-> self, ret |-> FALSE]

\* mutant: for_each over filter instead of find, every match is renamed
update_installation_name_all(self, identifier, new_name) ==
    [self |-> [self EXCEPT !.idf_installed =
                  [k \in 1..Len(@) |->
                      IF Matches(@[k], identifier)
                      THEN [@[k] EXCEPT !.name = new_name] ELSE @[k]]],
     ret |-> \E k \in 1..Len(self.idf_installed) :
                Matches(self.idf_installed[k], identifier)]

update_installation_name(self, identifier, new_name) ==
    LET k == Position(self.idf_installed, identifier)
    IN  IF k # 0
        THEN [self |-> [self EXCEPT !.idf_installed[k].name = new_name], ret |-> TRUE]
        ELSE [self |-> self, ret |-> FALSE]

\* mutant: the identifier is stored, not the id of the installation found
select_installation_by_identifier(self, identifier) ==
    LET k == Position(self.idf_installed, identifier)
    IN  IF k # 0
        THEN [self |-> [self EXCEPT !.idf_selected_id = identifier], ret |-> TRUE]
        ELSE [self |-> self, ret |-> FALSE]

select_installation(self, identifier) ==
    LET k == Position(self.idf_installed, identifier)
    IN  IF k # 0
        THEN [self |-> [self EXCEPT !.idf_selected_id = self.idf_installed[k].id],
              ret |-> TRUE]
        ELSE [self |-> self, ret |-> FALSE]

\* mutant: the selection is not cleared
remove_installation_keep_selection(self, identifier) ==
    LET k == Position(self.idf_installed, identifier)
    IN  IF k # 0
        THEN [self |-> [self EXCEPT !.idf_installed = RemoveAt(@, k)], ret |-> TRUE]
        ELSE [self |-> self, ret |-> FALSE]

remove_installation(self, identifier) ==
    LET k == Position(self.idf_installed, identifier)
        cleared == IF self.idf_selected_id = self.idf_installed[k].id
                   THEN "" ELSE self.idf_selected_id
    IN  IF k # 0
        THEN [self |-> [self EXCEPT !.idf_selected_id = cleared,
                                    !.idf_installed = RemoveAt(@, k)],
              ret |-> TRUE]
        ELSE [self |-> self, ret |-> FALSE]

(***************************************************************************)
(* The registry file.  serde_json writes an IdfConfig as a JSON object     *)
(* with the renamed keys of the #[serde(rename = ...)] attributes;         *)
(* `pretty` only changes the white space of the text.  A file is absent,   *)
(* holds such a JSON text, or holds text that does not parse (a write that *)
(* failed after the file was truncated leaves a proper prefix of the       *)
(* text).                                                                  *)
(***************************************************************************)
\* Serialize for IdfInstallation
SerializeInstallation(i) ==
    [activationScript |-> i.activation_script, id |-> i.id,
     idfToolsPath |-> i.idf_tools_path, name |-> i.name, path |-> i.path,
     python |-> i.python]

\* mutant: the rename attributes of two fields exchanged on the reading side
DeserializeInstallation_renamed(j) ==
    [activation_script |-> j.idfToolsPath, id |-> j.id,
     idf_tools_path |-> j.activationScript, name |-> j.name, path |-> j.path,
     python |-> j.python]

\* Deserialize for IdfInstallation
DeserializeInstallation(j) ==
    [activation_script |-> j.activationScript, id |-> j.id,
     idf_tools_path |-> j.idfToolsPath, name |-> j.name, path |-> j.path,
     python |-> j.python]

\* Serialize for IdfConfig
SerializeConfig(c) ==
    [gitPath |-> c.git_path,
     idfInstalled |-> [k \in 1..Len(c.idf_installed) |->
                          SerializeInstallation(c.idf_installed[k])],
     idfSelectedId |-> c.idf_selected_id]

\* Deserialize for IdfConfig
DeserializeConfig(j) ==
    [git_path |-> j.gitPath,
     idf_installed |-> [k \in 1..Len(j.idfInstalled) |->
                           DeserializeInstallation(j.idfInstalled[k])],
     idf_selected_id |-> j.idfSelectedId]

NoFile == [kind |-> "absent", pretty |-> FALSE, value |-> SerializeConfig(EmptyConfig)]
CorruptFile == [kind |-> "corrupt", pretty |-> FALSE, value |-> SerializeConfig(EmptyConfig)]
JsonFile(pretty, c) == [kind |-> "json", pretty |-> pretty, value |-> SerializeConfig(c)]

\* Path::exists
Exists(f) == f.kind # "absent"

\* what the environment may do to one call: nothing, or fail one of its
\* fallible steps
ToFileFaults == {"none", "ensure_path", "read", "open", "write"}
FromFileFaults == {"none", "read"}

\* IdfConfig::from_file: read_to_string, then serde_json::from_str
from_file(f, fault) ==
    IF f.kind = "json" /\ fault # "read"
    THEN [ret |-> "Ok", config |-> DeserializeConfig(f.value)]
    ELSE [ret |-> "Err", config |-> EmptyConfig]

\* mutant: the file is overwritten, what it held is not merged in
to_file_overwrite(self, f, pretty, fault) ==
    IF fault = "ensure_path"
    THEN [ret |-> "Err", self |-> self, file |-> f]
    ELSE IF fault = "open"
    THEN [ret |-> "Err", self |-> self, file |-> f]
    ELSE IF fault = "write"
    THEN [ret |-> "Err", self |-> self, file |-> CorruptFile]
    ELSE [ret |-> "Ok", self |-> self, file |-> JsonFile(pretty, self)]

\* mutant: a file that cannot be read or parsed counts as an empty registry
to_file_unreadable_as_empty(self, f, pretty, fault) ==
    LET existing == from_file(f, fault)
        merged == IF Exists(f)
                  THEN [self EXCEPT !.idf_installed = @ \o existing.config.idf_installed]
                  ELSE self
    IN  IF fault = "ensure_path"
        THEN [ret |-> "Err", self |-> self, file |-> f]
        ELSE IF fault = "open"
        THEN [ret |-> "Err", self |-> merged, file |-> f]
        ELSE IF fault = "write"
        THEN [ret |-> "Err", self |-> merged, file |-> CorruptFile]
        ELSE [ret |-> "Ok", self |-> merged, file |-> JsonFile(pretty, merged)]

\* mutant: what the file held is put before the installations in memory
to_file_existing_first(self, f, pretty, fault) ==
    LET existing == from_file(f, fault)
        merged == IF Exists(f)
                  THEN [self EXCEPT !.idf_installed = existing.config.idf_installed \o @]
                  ELSE self
    IN  IF fault = "ensure_path"
        THEN [ret |-> "Err", self |-> self, file |-> f]
        ELSE IF Exists(f) /\ existing.ret = "Err"
        THEN [ret |-> "Err", self |-> self, file |-> f]
        ELSE IF fault = "open"
        THEN [ret |-> "Err", self |-> merged, file |-> f]
        ELSE IF fault = "write"
        THEN [ret |-> "Err", self |-> merged, file |-> CorruptFile]
        ELSE [ret |-> "Ok", self |-> merged, file |-> JsonFile(pretty, merged)]

\* IdfConfig::to_file(&mut self, path, pretty): self is the registry the call
\* leaves in memory, file what it leaves at path
to_file(self, f, pretty, fault) ==
    LET existing == from_file(f, fault)
        merged == IF Exists(f)
                  THEN [self EXCEPT !.idf_installed = @ \o existing.config.idf_installed]
                  ELSE self
    IN  IF fault = "ensure_path"
        THEN [ret |-> "Err", self |-> self, file |-> f]
        ELSE IF Exists(f) /\ existing.ret = "Err"
        THEN [ret |-> "Err", self |-> self, file |-> f]
        ELSE IF fault = "open"
        THEN [ret |-> "Err", self |-> merged, file |-> f]
        ELSE IF fault = "write"
        THEN [ret |-> "Err", self |-> merged, file |-> CorruptFile]
        ELSE [ret |-> "Ok", self |-> merged, file |-> JsonFile(pretty, merged)]

(***************************************************************************)
(* The record of the last call: what was called, with which arguments, on  *)
(* which state, and what it returned.                                      *)
(***************************************************************************)
NoCall ==
    [op |-> "none", identifier |-> "", new_name |-> "", pretty |-> FALSE,
     fault |-> "none", pre |-> EmptyConfig, preFile |-> NoFile, preDisk |-> {},
     ret |-> "", found |-> <<>>, err |-> "", steps |-> {}, arg |-> <<>>,
     out |-> <<>>]

Bool(b) == IF b THEN "true" ELSE "false"

\* no call of with_retry, download_file, shallow_clone, to_file (step by
\* step) or verify_file_checksum is running
Idle == [pc |-> "idle"]

CallsIdle ==
    /\ retry = Idle
    /\ download = Idle
    /\ repo = Idle
    /\ writers = Idle
    /\ sum = Idle

\* no registry, no registry file, nothing on disk
RegistryIdle ==
    /\ config = EmptyConfig
    /\ file = NoFile
    /\ disk = {}
    /\ calls = 0
    /\ last = NoCall

(***************************************************************************)
(* The in-memory registry: one action per method of IdfConfig.             *)
(***************************************************************************)
GetSelectedInstallation ==
    /\ last' = [NoCall EXCEPT !.op = "get_selected_installation", !.pre = config,
                              !.found = get_selected_installation(config)]
    /\ UNCHANGED <<config, file, disk, calls>>
    /\ UNCHANGED callVars

UpdateInstallationName ==
    \E identifier \in Identifiers, new_name \in Names :
        LET r == update_installation_name(config, identifier, new_name)
        IN  /\ config' = r.self
            /\ last' = [NoCall EXCEPT !.op = "update_installation_name",
                                      !.identifier = identifier,
                                      !.new_name = new_name, !.pre = config,
                                      !.ret = Bool(r.ret)]
            /\ UNCHANGED <<file, disk, calls>>
            /\ UNCHANGED callVars

SelectInstallation ==
    \E identifier \in Identifiers :
        LET r == select_installation(config, identifier)
        IN  /\ config' = r.self
            /\ last' = [NoCall EXCEPT !.op = "select_installation",
                                      !.identifier = identifier, !.pre = config,
                                      !.ret = Bool(r.ret)]
            /\ UNCHANGED <<file, disk, calls>>
            /\ UNCHANGED callVars

RemoveInstallation ==
    \E identifier \in Identifiers :
        LET r == remove_installation(config, identifier)
        IN  /\ config' = r.self
            /\ last' = [NoCall EXCEPT !.op = "remove_installation",
                                      !.identifier = identifier, !.pre = config,
                                      !.ret = Bool(r.ret)]
            /\ UNCHANGED <<file, disk, calls>>
            /\ UNCHANGED callVars

\* any registry: the fields of IdfConfig are public and a registry is read
\* from a file anyone may have written
InitRegistry ==
    /\ config \in IdfConfig(IdfInstallation, MaxInstalled, SelectedIds)
    /\ file = NoFile
    /\ disk = {}
    /\ calls = 0
    /\ last = NoCall
    /\ CallsIdle

\* a registry whose selection is empty or names one of its installations
InitRegistrySelected ==
    /\ InitRegistry
    /\ \/ config.idf_selected_id = ""
       \/ \E k \in 1..Len(config.idf_installed) :
              config.idf_installed[k].id = config.idf_selected_id

NextRegistry ==
    \/ GetSelectedInstallation
    \/ UpdateInstallationName
    \/ SelectInstallation
    \/ RemoveInstallation

SpecRegistry == InitRegistry /\ [][NextRegistry]_vars

\* the three mutating methods alone, from a valid selection
NextRegistryMutators ==
    \/ UpdateInstallationName
    \/ SelectInstallation
    \/ RemoveInstallation

SpecRegistrySelected == InitRegistrySelected /\ [][NextRegistryMutators]_vars

(***************************************************************************)
(* Persistence: to_file and from_file called on a registry the caller      *)
(* holds (config) and the file at one path (file).                         *)
(***************************************************************************)
ToFile ==
    \E pretty \in BOOLEAN, fault \in ToFileFaults :
        LET r == to_file(config, file, pretty, fault)
        IN  /\ Len(r.self.idf_installed) <= MaxFileLen
            /\ config' = r.self
            /\ file' = r.file
            /\ last' = [NoCall EXCEPT !.op = "to_file", !.pretty = pretty,
                                      !.fault = fault, !.pre = config,
                                      !.preFile = file, !.ret = r.ret]
            /\ UNCHANGED <<disk, calls>>
            /\ UNCHANGED callVars

FromFile ==
    \E fault \in FromFileFaults :
        LET r == from_file(file, fault)
        IN  /\ config' = IF r.ret = "Ok" THEN r.config ELSE config
            /\ last' = [NoCall EXCEPT !.op = "from_file", !.fault = fault,
                                      !.pre = config, !.preFile = file,
                                      !.ret = r.ret]
            /\ UNCHANGED <<file, disk, calls>>
            /\ UNCHANGED callVars

\* the files a call may find at the path: none, one that does not parse, or
\* a registry of at most n installations
RegistryFiles(n) ==
    {NoFile, CorruptFile} \cup
    {JsonFile(pretty, c) :
        pretty \in BOOLEAN, c \in IdfConfig(FileInstallation, n, SelectedIds)}

InitPersist ==
    /\ config \in IdfConfig(FileInstallation, MaxMemInstalled, SelectedIds)
    /\ file \in RegistryFiles(MaxMemInstalled)
    /\ disk = {}
    /\ calls = 0
    /\ last = NoCall
    /\ CallsIdle

NextPersist ==
    \/ ToFile
    \/ FromFile

SpecPersist == InitPersist /\ [][NextPersist]_vars

(***************************************************************************)
(* The file system below the installations: the directory of each          *)
(* installation (the parent of its `path`), the source tree in it, and the *)
(* activation script.  disk is the set of the paths that exist.            *)
(***************************************************************************)
FsPaths ==
    {"/i1", "/i1/esp-idf", "/i1/esp-idf-v2", "/i2", "/i2/esp-idf", ScriptPath}

\* Path::parent
Parent(p) ==
    CASE p = "/i1/esp-idf" -> "/i1"
      [] p = "/i1/esp-idf-v2" -> "/i1"
      [] p = "/i2/esp-idf" -> "/i2"
      [] OTHER -> "/"

\* p and everything below it
Subtree(p) == {q \in FsPaths : q = p \/ Parent(q) = p \/ Parent(Parent(q)) = p}

RemoveOutcomes == {"ok", "fail", "fail_after_contents"}

\* utils::remove_directory_all: Ok and nothing to do when path does not exist;
\* otherwise the contents are removed entry by entry and then path itself, and
\* an error of any step is returned with what was removed so far removed
remove_directory_all(d, p, outcome) ==
    IF p \notin d
    THEN [ret |-> "Ok", disk |-> d]
    ELSE IF outcome = "ok"
    THEN [ret |-> "Ok", disk |-> d \ Subtree(p)]
    ELSE IF outcome = "fail_after_contents"
    THEN [ret |-> "Err", disk |-> d \ (Subtree(p) \ {p})]
    ELSE [ret |-> "Err", disk |-> d]

(***************************************************************************)
(* version_manager: each call loads the registry file at the default       *)
(* config path, changes the registry in memory and writes it to the same   *)
(* path with to_file.  Each returns what it leaves on disk and its Result. *)
(***************************************************************************)
\* the one step of a call the environment fails, if any (a call returns at
\* its first error): "load" is the call's own from_file, the others are the
\* steps of to_file and remove_directory_all
SaveFaults == {"none", "load", "ensure_path", "read", "open", "write"}
RemoveFaults == SaveFaults \cup {"folder", "folder_after_contents", "script"}

LoadFault(fault) == IF fault = "load" THEN "read" ELSE "none"

select_idf_version(f, identifier, fault) ==
    LET loaded == from_file(f, LoadFault(fault))
        sel == select_installation(loaded.config, identifier)
        saved == to_file(sel.self, f, TRUE, fault)
    IN  IF loaded.ret = "Err" THEN [ret |-> "Err", file |-> f]
        ELSE IF sel.ret THEN [ret |-> saved.ret, file |-> saved.file]
        ELSE [ret |-> "Err", file |-> f]

\* mutant: the registry is saved whether or not an installation was renamed
rename_idf_version_save_always(f, identifier, new_name, fault) ==
    LET loaded == from_file(f, LoadFault(fault))
        res == update_installation_name(loaded.config, identifier, new_name)
        saved == to_file(res.self, f, TRUE, fault)
    IN  IF loaded.ret = "Err" THEN [ret |-> "Err", file |-> f]
        ELSE IF res.ret THEN [ret |-> saved.ret, file |-> saved.file]
        ELSE [ret |-> "Err", file |-> saved.file]

rename_idf_version(f, identifier, new_name, fault) ==
    LET loaded == from_file(f, LoadFault(fault))
        res == update_installation_name(loaded.config, identifier, new_name)
        saved == to_file(res.self, f, TRUE, fault)
    IN  IF loaded.ret = "Err" THEN [ret |-> "Err", file |-> f]
        ELSE IF res.ret THEN [ret |-> saved.ret, file |-> saved.file]
        ELSE [ret |-> "Err", file |-> f]

\* err names the error message of an Err ("" with Ok); steps are the calls of
\* remove_installation and to_file the call has made
remove_single_idf_version(f, d, identifier, fault) ==
    LET loaded == from_file(f, LoadFault(fault))
        k == Position(loaded.config.idf_installed, identifier)
        installation == loaded.config.idf_installed[k]
        rmFolder == remove_directory_all(d, Parent(installation.path),
                        IF fault = "folder" THEN "fail"
                        ELSE IF fault = "folder_after_contents"
                        THEN "fail_after_contents" ELSE "ok")
        rmScript == remove_directory_all(rmFolder.disk, installation.activation_script,
                        IF fault = "script" THEN "fail" ELSE "ok")
        removed == remove_installation(loaded.config, identifier)
        saved == to_file(removed.self, f, TRUE, fault)
    IN  IF loaded.ret = "Err"
        THEN [ret |-> "Err", file |-> f, disk |-> d, err |-> "load", steps |-> {}]
        ELSE IF k = 0
        THEN [ret |-> "Err", file |-> f, disk |-> d,
              err |-> "Version not installed", steps |-> {}]
        ELSE IF rmFolder.ret = "Err"
        THEN [ret |-> "Err", file |-> f, disk |-> rmFolder.disk,
              err |-> "Failed to remove installation folder", steps |-> {}]
        ELSE IF rmScript.ret = "Err"
        THEN [ret |-> "Err", file |-> f, disk |-> rmScript.disk,
              err |-> "Failed to remove activation script", steps |-> {}]
        ELSE IF ~removed.ret
        THEN [ret |-> "Err", file |-> f, disk |-> rmScript.disk,
              err |-> "Failed to remove installation from config file",
              steps |-> {"remove_installation"}]
        ELSE [ret |-> saved.ret, file |-> saved.file, disk |-> rmScript.disk,
              err |-> IF saved.ret = "Err" THEN "save" ELSE "",
              steps |-> {"remove_installation", "to_file"}]

FileLen(f) == Len(f.value.idfInstalled)

SelectIdfVersion ==
    \E identifier \in VersionIdentifiers, fault \in SaveFaults :
        LET r == select_idf_version(file, identifier, fault)
        IN  /\ calls < MaxCalls
            /\ FileLen(r.file) <= MaxFileLen
            /\ calls' = calls + 1
            /\ file' = r.file
            /\ last' = [NoCall EXCEPT !.op = "select_idf_version",
                                      !.identifier = identifier, !.fault = fault,
                                      !.preFile = file, !.preDisk = disk,
                                      !.ret = r.ret]
            /\ UNCHANGED <<config, disk>>
            /\ UNCHANGED callVars

RenameIdfVersion ==
    \E identifier \in VersionIdentifiers, new_name \in Names, fault \in SaveFaults :
        LET r == rename_idf_version(file, identifier, new_name, fault)
        IN  /\ calls < MaxCalls
            /\ FileLen(r.file) <= MaxFileLen
            /\ calls' = calls + 1
            /\ file' = r.file
            /\ last' = [NoCall EXCEPT !.op = "rename_idf_version",
                                      !.identifier = identifier,
                                      !.new_name = new_name, !.fault = fault,
                                      !.preFile = file, !.preDisk = disk,
                                      !.ret = r.ret]
            /\ UNCHANGED <<config, disk>>
            /\ UNCHANGED callVars

RemoveSingleIdfVersion ==
    \E identifier \in VersionIdentifiers, fault \in RemoveFaults :
        LET r == remove_single_idf_version(file, disk, identifier, fault)
        IN  /\ calls < MaxCalls
            /\ FileLen(r.file) <= MaxFileLen
            /\ calls' = calls + 1
            /\ file' = r.file
            /\ disk' = r.disk
            /\ last' = [NoCall EXCEPT !.op = "remove_single_idf_version",
                                      !.identifier = identifier, !.fault = fault,
                                      !.preFile = file, !.preDisk = disk,
                                      !.ret = r.ret, !.err = r.err,
                                      !.steps = r.steps]
            /\ UNCHANGED config
            /\ UNCHANGED callVars

\* a registry file as the library writes it (pretty-printed) whose installations
\* have pairwise distinct ids, and every directory and script of the
\* installations in place
InitVersions ==
    /\ config = EmptyConfig
    /\ file \in {f \in RegistryFiles(MaxFileInstalled) :
                  f.pretty = (f.kind = "json") /\ DistinctIds(f.value.idfInstalled)}
    /\ disk = FsPaths
    /\ calls = 0
    /\ last = NoCall
    /\ CallsIdle

NextVersions ==
    \/ SelectIdfVersion
    \/ RenameIdfVersion
    \/ RemoveSingleIdfVersion

SpecVersions == InitVersions /\ [][NextVersions]_vars

(***************************************************************************)
(* Claims about the in-memory registry.                                    *)
(***************************************************************************)
\* the indices of the installations of registry c that identifier matches
MatchSet(c, identifier) ==
    {k \in 1..Len(c.idf_installed) :
        c.idf_installed[k].id = identifier \/ c.idf_installed[k].name = identifier}

SelectionValid(c) ==
    \/ c.idf_selected_id = ""
    \/ \E k \in 1..Len(c.idf_installed) : c.idf_installed[k].id = c.idf_selected_id

\* C1: from a registry whose idf_selected_id is empty or the id of a member,
\* every registry reached by select_installation, update_installation_name and
\* remove_installation has idf_selected_id empty or the id of a member; and a
\* remove_installation that removed an installation whose id was the selected
\* id leaves idf_selected_id empty.
C1_SelectedNeverDangling ==
    /\ SelectionValid(config)
    /\ (/\ last.op = "remove_installation"
        /\ last.ret = "true"
        /\ \E k \in 1..Len(last.pre.idf_installed) :
              /\ RemoveAt(last.pre.idf_installed, k) = config.idf_installed
              /\ last.pre.idf_installed[k].id = last.pre.idf_selected_id)
       => config.idf_selected_id = ""

C1_Witness ==
    /\ last.op = "remove_installation"
    /\ last.ret = "true"
    /\ last.pre.idf_selected_id # ""
    /\ last.pre.idf_selected_id = last.identifier
    /\ config.idf_selected_id = ""
    /\ Len(config.idf_installed) >= 1

\* C5 (as claimed): in a registry with pairwise distinct ids, after
\* remove_installation(I.id) for a member I, get_selected_installation returns
\* None if it returned I before the call and what it returned before otherwise.
C5_RemoveByIdKeepsOtherSelection ==
    (/\ last.op = "remove_installation"
     /\ DistinctIds(last.pre.idf_installed))
    => \A k \in 1..Len(last.pre.idf_installed) :
          LET I == last.pre.idf_installed[k]
              before == get_selected_installation(last.pre)
              after == get_selected_installation(config)
          IN  last.identifier = I.id
              => IF before = <<I>> THEN after = <<>> ELSE after = before

\* C6: select_installation returns true exactly when some installation's id or
\* name equals identifier; then idf_selected_id is the id of a matching
\* installation and nothing else changed; otherwise the registry is unchanged.
C6_SelectContract ==
    last.op = "select_installation"
    => LET M == MatchSet(last.pre, last.identifier)
       IN  /\ last.ret = "true" <=> M # {}
           /\ M # {} =>
                 /\ \E k \in M : config.idf_selected_id = last.pre.idf_installed[k].id
                 /\ config.idf_installed = last.pre.idf_installed
                 /\ config.git_path = last.pre.git_path
           /\ M = {} => config = last.pre

C6_Witness ==
    /\ last.op = "select_installation"
    /\ last.ret = "true"
    /\ \A k \in 1..Len(last.pre.idf_installed) :
          last.pre.idf_installed[k].id # last.identifier
    /\ config.idf_selected_id # last.pre.idf_selected_id
    /\ config.idf_selected_id # last.identifier

\* C7: update_installation_name changes the name of one installation that
\* identifier matches and nothing else (no id, path, python, idf_tools_path,
\* activation_script, no other name, not the length or order of idf_installed,
\* not idf_selected_id, not git_path); with no match it returns false and
\* changes nothing.
C7_RenameFrame ==
    last.op = "update_installation_name"
    => LET M == MatchSet(last.pre, last.identifier)
       IN  /\ last.ret = "true" <=> M # {}
           /\ M # {} =>
                 \E k \in M :
                    config = [last.pre EXCEPT !.idf_installed[k].name = last.new_name]
           /\ M = {} => config = last.pre

C7_Witness ==
    /\ last.op = "update_installation_name"
    /\ last.ret = "true"
    /\ Cardinality(MatchSet(last.pre, last.identifier)) >= 2
    /\ config # last.pre

\* C8 (as claimed): after select_installation(identifier), and after
\* update_installation_name(identifier, new_name), the same call again leaves
\* the registry as it is.
C8_SelectAndRenameIdempotent ==
    /\ last.op = "select_installation"
       => select_installation(config, last.identifier).self = config
    /\ last.op = "update_installation_name"
       => update_installation_name(config, last.identifier, last.new_name).self = config

\* C8 (amended): select_installation is idempotent; update_installation_name is
\* idempotent whenever at most one installation of the registry has an id or
\* name equal to identifier.
C8_IdempotentOnUniqueMatch ==
    /\ last.op = "select_installation"
       => select_installation(config, last.identifier).self = config
    /\ (/\ last.op = "update_installation_name"
        /\ Cardinality(MatchSet(last.pre, last.identifier)) <= 1)
       => update_installation_name(config, last.identifier, last.new_name).self = config

C8_Witness ==
    /\ last.op = "update_installation_name"
    /\ last.ret = "true"
    /\ Cardinality(MatchSet(last.pre, last.identifier)) = 1
    /\ Len(config.idf_installed) >= 2
    /\ config # last.pre
    /\ MatchSet(config, last.identifier) = {}

\* C10 (as claimed): get_selected_installation returns None whenever
\* idf_selected_id is the empty string or the id of no installation, and
\* otherwise an installation whose id is idf_selected_id.
C10_SelectedLookup ==
    last.op = "get_selected_installation"
    => IF \/ last.pre.idf_selected_id = ""
          \/ \A k \in 1..Len(last.pre.idf_installed) :
                last.pre.idf_installed[k].id # last.pre.idf_selected_id
       THEN last.found = <<>>
       ELSE /\ Len(last.found) = 1
            /\ last.found[1].id = last.pre.idf_selected_id
            /\ \E k \in 1..Len(last.pre.idf_installed) :
                  last.pre.idf_installed[k] = last.found[1]

(***************************************************************************)
(* Claims about the registry file.                                         *)
(***************************************************************************)
\* the registry a reader finds in file f
Stored(f) == from_file(f, "none").config

\* C2 (as claimed): from a registry file with pairwise distinct ids, after any
\* sequence of select_idf_version, rename_idf_version and
\* remove_single_idf_version calls no two installations in the file have the
\* same id.
C2_FileIdsUnique ==
    file.kind = "json" => DistinctIds(Stored(file).idf_installed)

\* C3 (as claimed): a successful to_file of registry A onto a file holding
\* registry B writes B's installations followed by A's, and A's
\* idf_selected_id.
C3_MergeFileFirst ==
    (last.op = "to_file" /\ last.ret = "Ok" /\ last.preFile.kind = "json")
    => /\ Stored(file).idf_installed =
              Stored(last.preFile).idf_installed \o last.pre.idf_installed
       /\ Stored(file).idf_selected_id = last.pre.idf_selected_id

\* C3 (amended): a successful to_file of registry A onto a file holding
\* registry B writes A's installations followed by B's (every entry of both
\* kept, none dropped for its id), and A's idf_selected_id.
C3_MergeMemoryFirst ==
    (last.op = "to_file" /\ last.ret = "Ok" /\ last.preFile.kind = "json")
    => /\ Stored(file).idf_installed =
              last.pre.idf_installed \o Stored(last.preFile).idf_installed
       /\ Stored(file).idf_selected_id = last.pre.idf_selected_id

C3_Witness ==
    /\ last.op = "to_file"
    /\ last.ret = "Ok"
    /\ last.preFile.kind = "json"
    /\ Len(last.pre.idf_installed) >= 1
    /\ Len(Stored(last.preFile).idf_installed) >= 1
    /\ last.pre.idf_installed[1].id = Stored(last.preFile).idf_installed[1].id
    /\ last.pre.idf_installed # Stored(last.preFile).idf_installed
    /\ last.pre.idf_selected_id # Stored(last.preFile).idf_selected_id
    /\ Len(Stored(file).idf_installed) =
          Len(last.pre.idf_installed) + Len(Stored(last.preFile).idf_installed)

\* C4 (as claimed): after remove_single_idf_version(identifier) returned Ok on
\* a registry file in which exactly one installation matched identifier, the
\* file holds no installation whose id or name equals identifier.
C4_RemovedFromFile ==
    (/\ last.op = "remove_single_idf_version"
     /\ last.ret = "Ok"
     /\ Cardinality(MatchSet(Stored(last.preFile), last.identifier)) = 1)
    => /\ file.kind = "json"
       /\ MatchSet(Stored(file), last.identifier) = {}

\* C9: to_file of a registry R to a path with no file leaves R as it was, and
\* when it succeeds from_file of that path returns a registry equal to R
\* (git_path, idf_selected_id, and the installations in order with their six
\* fields), also for R with no installation and an empty idf_selected_id.
C9_RoundTrip ==
    (last.op = "to_file" /\ last.preFile.kind = "absent")
    => /\ config = last.pre
       /\ last.ret = "Ok" =>
             /\ from_file(file, "none").ret = "Ok"
             /\ from_file(file, "none").config = last.pre

C9_Witness ==
    /\ last.op = "to_file"
    /\ last.preFile.kind = "absent"
    /\ last.ret = "Ok"
    /\ Len(last.pre.idf_installed) >= 1
    /\ last.pre.idf_selected_id # ""
    /\ Stored(file) = last.pre

(***************************************************************************)
(* utils::with_retry(f, max_retries).  retry is the running call: the      *)
(* argument max_retries, the local attempt, what each invocation of f      *)
(* returned so far (results, one entry per invocation) and, once the call  *)
(* has returned, its return value.  The closure f is the environment: each *)
(* invocation returns any Ok(value) or Err(error).                         *)
(***************************************************************************)
\* largest max_retries of a call
MaxRetries == 4

Values == {"v1", "v2"}
Errors == {"e1", "e2"}
Results == [kind : {"Ok"}, val : Values] \cup [kind : {"Err"}, val : Errors]
NoResult == [kind |-> "none", val |-> ""]

\* one pass of the loop in which f returns res, with `attempt > max_retries`
with_retry_loop_gt(self, res) ==
    LET called == [self EXCEPT !.results = Append(@, res)]
        attempt == self.attempt + 1
    IN  IF res.kind = "Ok"
        THEN [called EXCEPT !.pc = "returned", !.ret = res]
        ELSE IF attempt > self.max_retries
        THEN [called EXCEPT !.attempt = attempt, !.pc = "returned", !.ret = res]
        ELSE [called EXCEPT !.attempt = attempt]

\* one pass of the loop in which f returns res, returning the first error
with_retry_loop_first_error(self, res) ==
    LET called == [self EXCEPT !.results = Append(@, res)]
        attempt == self.attempt + 1
    IN  IF res.kind = "Ok"
        THEN [called EXCEPT !.pc = "returned", !.ret = res]
        ELSE IF attempt >= self.max_retries
        THEN [called EXCEPT !.attempt = attempt, !.pc = "returned",
                            !.ret = called.results[1]]
        ELSE [called EXCEPT !.attempt = attempt]

\* one pass of the loop in which f returns res
with_retry_loop(self, res) ==
    LET called == [self EXCEPT !.results = Append(@, res)]
        attempt == self.attempt + 1
    IN  IF res.kind = "Ok"
        THEN [called EXCEPT !.pc = "returned", !.ret = res]
        ELSE IF attempt >= self.max_retries
        THEN [called EXCEPT !.attempt = attempt, !.pc = "returned", !.ret = res]
        ELSE [called EXCEPT !.attempt = attempt]

WithRetryLoop ==
    /\ retry.pc = "loop"
    /\ \E res \in Results : retry' = with_retry_loop(retry, res)
    /\ UNCHANGED <<registryVars, download, repo, writers, sum>>

InitRetry ==
    /\ RegistryIdle
    /\ retry \in [pc : {"loop"}, max_retries : 0..MaxRetries, attempt : {0},
                  results : {<<>>}, ret : {NoResult}]
    /\ download = Idle
    /\ repo = Idle
    /\ writers = Idle
    /\ sum = Idle

NextRetry == WithRetryLoop

\* the loop runs in the caller's thread and every invocation of f returns
SpecRetry == InitRetry /\ [][NextRetry]_vars /\ WF_vars(WithRetryLoop)

(***************************************************************************)
(* Claims about with_retry.                                                *)
(***************************************************************************)
Invocations == Len(retry.results)

\* C11 as stated: with_retry never invokes f more than max_retries times,
\* for every max_retries >= 0
C11_AtMostMaxRetries == Invocations <= retry.max_retries

\* C11: with_retry invokes f at most max_retries times when max_retries >= 1
\* and at most once when max_retries = 0, and the call returns
C11_AtMostMaxRetriesOrOnce ==
    /\ [](Invocations <= IF retry.max_retries = 0 THEN 1 ELSE retry.max_retries)
    /\ <>(retry.pc = "returned")

\* a call with max_retries = 0 has returned after its one invocation of f
C11_Witness ==
    /\ retry.pc = "returned"
    /\ retry.max_retries = 0
    /\ Invocations = 1

AllErr(results) == \A k \in 1..Len(results) : results[k].kind = "Err"

\* C12: for max_retries >= 1, a call returns Ok of the first successful value
\* right after the invocation that produced it (k failures, k + 1 invocations,
\* k < max_retries), and returns Err of the last error after exactly
\* max_retries invocations that all failed; it returns in no other case
C12_FirstSuccessOrLastError ==
    retry.max_retries >= 1 =>
        /\ retry.pc = "loop" =>
              /\ AllErr(retry.results)
              /\ Invocations < retry.max_retries
        /\ retry.pc = "returned" =>
              /\ Invocations >= 1
              /\ retry.ret = retry.results[Invocations]
              /\ AllErr(SubSeq(retry.results, 1, Invocations - 1))
              /\ Invocations <= retry.max_retries
              /\ retry.ret.kind = "Err" => Invocations = retry.max_retries

\* f failed twice with different errors and then succeeded, max_retries = 3
C12_Witness ==
    /\ retry.pc = "returned"
    /\ retry.max_retries = 3
    /\ Invocations = 3
    /\ retry.ret.kind = "Ok"
    /\ retry.results[1] # retry.results[2]

(***************************************************************************)
(* lib::download_file(url, destination_path, progress_sender), one action  *)
(* per interaction with the network, the file system and the channel.      *)
(* download is the running call: the response, the destination file (dest, *)
(* and dest0 as the call found it), the locals downloaded and chunk, the   *)
(* lengths of the chunks received so far (chunks), and the events passed   *)
(* to progress_sender.send in order (events; delivered says whether the    *)
(* receiver was still there, file_len is the length of the destination     *)
(* file at that moment).                                                   *)
(***************************************************************************)
\* most chunks of a response body
MaxChunks == 2
\* longest chunk
MaxChunkLen == 2

ChunkLens == 0..MaxChunkLen
ContentLengths == 0..(MaxChunks * MaxChunkLen)

\* what Response::chunk returns: Err, Ok(None) at the end of the body, Ok(Some)
Chunks == [kind : {"Err", "None"}, len : {0}] \cup [kind : {"Some"}, len : ChunkLens]

\* the file at destination_path/filename
NoDest == [exists |-> FALSE, len |-> 0, created |-> FALSE]
OldDest(n) == [exists |-> TRUE, len |-> n, created |-> FALSE]
NewDest == [exists |-> TRUE, len |-> 0, created |-> TRUE]

\* enum DownloadProgress
Progress(downloaded, total) ==
    [kind |-> "Progress", downloaded |-> downloaded, total |-> total,
     delivered |-> FALSE, file_len |-> 0]
Complete == [kind |-> "Complete", downloaded |-> 0, total |-> 0,
             delivered |-> FALSE, file_len |-> 0]
Error == [kind |-> "Error", downloaded |-> 0, total |-> 0,
          delivered |-> FALSE, file_len |-> 0]

\* progress_sender.send(ev): Err, and nothing queued, once the receiver is gone
Send(self, ev) ==
    [self EXCEPT !.events = Append(@, [ev EXCEPT !.delivered = self.rx_alive,
                                                 !.file_len = self.dest.len])]

Returned(self, ret) == [self EXCEPT !.pc = "returned", !.ret = ret]

\* mutant: the destination file is created before the content length is read
download_file_request_create_first(self, response, total) ==
    LET got == [self EXCEPT !.response = response, !.dest = NewDest]
    IN  IF response = "failed" THEN Returned([self EXCEPT !.response = response], "Err")
        ELSE IF response = "no_length" THEN Returned(Send(got, Error), "Err")
        ELSE IF ~self.url_has_name THEN [got EXCEPT !.total = total, !.pc = "panicked"]
        ELSE [got EXCEPT !.total = total, !.pc = "create"]

\* client.get(url).send().await, content_length(), file_name().unwrap()
download_file_request(self, response, total) ==
    LET got == [self EXCEPT !.response = response]
    IN  IF response = "failed" THEN Returned(got, "Err")
        ELSE IF response = "no_length" THEN Returned(Send(got, Error), "Err")
        ELSE IF ~self.url_has_name THEN [got EXCEPT !.total = total, !.pc = "panicked"]
        ELSE [got EXCEPT !.total = total, !.pc = "create"]

\* File::create(destination_path.join(filename))?
download_file_create(self, ok) ==
    IF ok THEN [self EXCEPT !.dest = NewDest, !.pc = "chunk"]
    ELSE Returned(self, "Err")

\* mutant: downloaded = chunk.len() instead of +=
download_file_chunk_assign(self, chunk) ==
    IF chunk.kind = "Err" THEN Returned(self, "Err")
    ELSE IF chunk.kind = "None" THEN Returned(Send(self, Complete), "Ok")
    ELSE [self EXCEPT !.downloaded = chunk.len, !.chunk = chunk.len,
                      !.chunks = Append(@, chunk.len), !.pc = "write"]

\* response.chunk().await: the loop condition, downloaded += chunk.len(), and
\* the send of Complete after the loop
download_file_chunk(self, chunk) ==
    IF chunk.kind = "Err" THEN Returned(self, "Err")
    ELSE IF chunk.kind = "None" THEN Returned(Send(self, Complete), "Ok")
    ELSE [self EXCEPT !.downloaded = @ + chunk.len, !.chunk = chunk.len,
                      !.chunks = Append(@, chunk.len), !.pc = "write"]

\* file.write_all(&chunk)?: all of the chunk, or an error after `written` bytes
download_file_write(self, written) ==
    IF written = self.chunk
    THEN [self EXCEPT !.dest.len = @ + written, !.pc = "progress"]
    ELSE Returned([self EXCEPT !.dest.len = @ + written], "Err")

\* progress_sender.send(Progress(downloaded, total_size)), Err returns
download_file_progress(self) ==
    LET sent == Send(self, Progress(self.downloaded, self.total))
    IN  IF self.rx_alive THEN [sent EXCEPT !.pc = "chunk"] ELSE Returned(sent, "Err")

otherCallsThanDownload == <<registryVars, retry, repo, writers, sum>>

DownloadRequest ==
    /\ download.pc = "request"
    /\ \E response \in {"failed", "no_length", "length"}, total \in ContentLengths :
           /\ response # "length" => total = 0
           /\ download' = download_file_request(download, response, total)
    /\ UNCHANGED otherCallsThanDownload

DownloadCreate ==
    /\ download.pc = "create"
    /\ \E ok \in BOOLEAN : download' = download_file_create(download, ok)
    /\ UNCHANGED otherCallsThanDownload

DownloadChunk ==
    /\ download.pc = "chunk"
    /\ \E chunk \in Chunks :
           /\ chunk.kind = "Some" => Len(download.chunks) < MaxChunks
           /\ download' = download_file_chunk(download, chunk)
    /\ UNCHANGED otherCallsThanDownload

DownloadWrite ==
    /\ download.pc = "write"
    /\ \E written \in 0..download.chunk :
           download' = download_file_write(download, written)
    /\ UNCHANGED otherCallsThanDownload

DownloadSendProgress ==
    /\ download.pc = "progress"
    /\ download' = download_file_progress(download)
    /\ UNCHANGED otherCallsThanDownload

\* the other end of the channel: the Receiver is dropped
DropReceiver ==
    /\ download.pc \notin {"returned", "panicked"}
    /\ download.rx_alive
    /\ download' = [download EXCEPT !.rx_alive = FALSE]
    /\ UNCHANGED otherCallsThanDownload

InitDownload ==
    /\ RegistryIdle
    /\ \E url_has_name \in BOOLEAN, dest \in {NoDest, OldDest(0), OldDest(MaxChunkLen)} :
           download = [pc |-> "request", url_has_name |-> url_has_name,
                       rx_alive |-> TRUE, response |-> "none", total |-> 0,
                       dest |-> dest, dest0 |-> dest, downloaded |-> 0,
                       chunk |-> 0, chunks |-> <<>>, events |-> <<>>,
                       ret |-> "none"]
    /\ retry = Idle
    /\ repo = Idle
    /\ writers = Idle
    /\ sum = Idle

NextDownload ==
    \/ DownloadRequest
    \/ DownloadCreate
    \/ DownloadChunk
    \/ DownloadWrite
    \/ DownloadSendProgress
    \/ DropReceiver

SpecDownload == InitDownload /\ [][NextDownload]_vars

(***************************************************************************)
(* Claims about download_file.                                             *)
(***************************************************************************)
Terminal(ev) == ev.kind \in {"Complete", "Error"}

\* the positions of the terminal events and of the Progress events
TerminalEvents == {k \in 1..Len(download.events) : Terminal(download.events[k])}
ProgressEvents == {k \in 1..Len(download.events) : ~Terminal(download.events[k])}

RECURSIVE SumTo(_, _)
SumTo(s, n) == IF n = 0 THEN 0 ELSE SumTo(s, n - 1) + s[n]

\* C13 as stated: a call that has returned (with the receiver still there) has
\* sent exactly one terminal event, as its last event: Complete when it
\* returned Ok and Error when it returned Err
C13_OneTerminalEvent ==
    (download.pc = "returned" /\ download.rx_alive) =>
        /\ TerminalEvents = {Len(download.events)}
        /\ Len(download.events) >= 1
        /\ download.events[Len(download.events)].kind =
               (IF download.ret = "Ok" THEN "Complete" ELSE "Error")

\* C14: the Progress events are the first events sent, the k-th of them is
\* sent after the k-th chunk was written in full and carries the bytes of the
\* first k chunks, which is the length of the file at that moment, and the
\* total of the response; no chunk gets two events, and a call that waits
\* for the next chunk or has returned Ok has sent one for every chunk received
C14_ProgressPerChunk ==
    download.pc # "idle" =>
        /\ \A k \in ProgressEvents :
              /\ \A j \in 1..k : j \in ProgressEvents
              /\ k <= Len(download.chunks)
              /\ download.events[k].downloaded = SumTo(download.chunks, k)
              /\ download.events[k].downloaded = download.events[k].file_len
              /\ download.events[k].total = download.total
              /\ k > 1 => download.events[k - 1].downloaded
                              <= download.events[k].downloaded
        /\ Cardinality(ProgressEvents) >= Len(download.chunks) - 1
        /\ (download.pc = "chunk" \/ download.ret = "Ok") =>
              Cardinality(ProgressEvents) = Len(download.chunks)

\* two chunks of different lengths were written and reported, then Complete
C14_Witness ==
    /\ download.ret = "Ok"
    /\ Len(download.chunks) = 2
    /\ download.chunks[1] # download.chunks[2]
    /\ download.chunks[1] > 0
    /\ Cardinality(ProgressEvents) = 2
    /\ download.dest.len = download.events[2].downloaded

\* C15: when the response declares no content length the call returns Err,
\* the one event it sends is Error, and the destination file is as the call
\* found it
C15_NoContentLengthFailsFast ==
    download.pc # "idle" =>
        (download.response = "no_length" =>
            /\ download.pc = "returned"
            /\ download.ret = "Err"
            /\ Len(download.events) = 1
            /\ download.events[1].kind = "Error"
            /\ download.dest = download.dest0)

\* no content length, and a file with content was at the destination
C15_Witness ==
    /\ download.pc = "returned"
    /\ download.response = "no_length"
    /\ download.dest0 = OldDest(MaxChunkLen)
    /\ download.events[1].delivered

(***************************************************************************)
(* IdfConfig::to_file step by step, called by two processes on the same    *)
(* path, with a third process that reads the path with from_file.  file is *)
(* the file at the path; writers holds, for each process, where its call   *)
(* is (pc), the registry it holds (self) and what the call returned, plus  *)
(* the file as it was before the calls (file0) and what the last from_file *)
(* of the reading process returned (observed).  A file that was opened     *)
(* with truncate and not yet written in full does not parse: CorruptFile.  *)
(***************************************************************************)
Procs == {"p1", "p2"}

\* the new installation a provisioning run adds: p1 adds one with id "a",
\* p2 one with id "b"
NewInstallations(p) ==
    {i \in FileInstallation : i.id = (IF p = "p1" THEN "a" ELSE "b")}

\* path.exists(): the branch of to_file taken
to_file_exists(w, f) ==
    [w EXCEPT !.pc = IF Exists(f) THEN "read" ELSE "open"]

\* IdfConfig::from_file(path)? and self.idf_installed.extend(existing_version)
to_file_read(w, f) ==
    LET existing == from_file(f, "none")
    IN  IF existing.ret = "Err" THEN [w EXCEPT !.pc = "returned", !.ret = "Err"]
        ELSE [w EXCEPT !.pc = "open",
                       !.self.idf_installed = @ \o existing.config.idf_installed]

\* OpenOptions::new().write(true).create(true).truncate(true).open(path)?
to_file_open(w, f) == [w |-> [w EXCEPT !.pc = "write"], file |-> CorruptFile]

\* file.write_all(json_string.as_bytes()), at offset 0 of the file opened
\* before: over a longer document another process has written since, the tail
\* of that document stays
to_file_write(w, f) ==
    [w |-> [w EXCEPT !.pc = "returned", !.ret = "Ok"],
     file |-> IF f.kind = "json" /\ FileLen(f) > Len(w.self.idf_installed)
              THEN CorruptFile
              ELSE JsonFile(TRUE, w.self)]

otherCallsThanWriters == <<config, disk, calls, last, retry, download, repo, sum>>

ToFileExists(p) ==
    /\ writers.proc[p].pc = "exists"
    /\ writers' = [writers EXCEPT !.proc[p] = to_file_exists(@, file)]
    /\ UNCHANGED <<file, otherCallsThanWriters>>

ToFileRead(p) ==
    /\ writers.proc[p].pc = "read"
    /\ writers' = [writers EXCEPT !.proc[p] = to_file_read(@, file)]
    /\ UNCHANGED <<file, otherCallsThanWriters>>

ToFileOpen(p) ==
    /\ writers.proc[p].pc = "open"
    /\ writers' = [writers EXCEPT !.proc[p] = to_file_open(@, file).w]
    /\ file' = to_file_open(writers.proc[p], file).file
    /\ UNCHANGED otherCallsThanWriters

ToFileWrite(p) ==
    /\ writers.proc[p].pc = "write"
    /\ writers' = [writers EXCEPT !.proc[p] = to_file_write(@, file).w]
    /\ file' = to_file_write(writers.proc[p], file).file
    /\ UNCHANGED otherCallsThanWriters

\* the process dies between two steps of its call
Crash(p) ==
    /\ writers.proc[p].pc \in {"read", "open", "write"}
    /\ writers' = [writers EXCEPT !.proc[p].pc = "crashed"]
    /\ UNCHANGED <<file, otherCallsThanWriters>>

\* another process reads the path
FromFileByReader ==
    /\ \E p \in Procs : writers.proc[p].pc \notin {"exists", "returned"}
    /\ writers' = [writers EXCEPT !.observed = from_file(file, "none").ret]
    /\ UNCHANGED <<file, otherCallsThanWriters>>

InitWriters ==
    /\ config = EmptyConfig
    /\ disk = {}
    /\ calls = 0
    /\ last = NoCall
    /\ file \in {NoFile} \cup
                {JsonFile(TRUE, c) :
                    c \in IdfConfig(FileInstallation, MaxMemInstalled, {""})}
    /\ \E i1 \in NewInstallations("p1"), i2 \in NewInstallations("p2") :
           writers = [pc |-> "running", file0 |-> file, observed |-> "none",
                      proc |-> [p \in Procs |->
                          [pc |-> "exists", ret |-> "none",
                           self |-> [git_path |-> GitPath,
                                     idf_installed |-> <<IF p = "p1" THEN i1 ELSE i2>>,
                                     idf_selected_id |-> ""],
                           added |-> IF p = "p1" THEN i1 ELSE i2]]]
    /\ retry = Idle
    /\ download = Idle
    /\ repo = Idle
    /\ sum = Idle

NextWriters ==
    \/ \E p \in Procs : ToFileExists(p)
    \/ \E p \in Procs : ToFileRead(p)
    \/ \E p \in Procs : ToFileOpen(p)
    \/ \E p \in Procs : ToFileWrite(p)
    \/ \E p \in Procs : Crash(p)
    \/ FromFileByReader

SpecWriters == InitWriters /\ [][NextWriters]_vars

(***************************************************************************)
(* Claims about concurrent and interrupted writes of the registry file.    *)
(***************************************************************************)
\* C17 as stated: while to_file calls run onto an existing registry file, also
\* when a caller has crashed between two steps, the file parses (a from_file
\* of another process returns Ok) and holds the registry it held before or
\* the complete registry of a call that has opened it
C17_PersistAtomic ==
    (writers.pc = "running" /\ writers.file0.kind = "json") =>
        /\ file.kind = "json"
        /\ writers.observed # "Err"
        /\ \/ file = writers.file0
           \/ \E p \in Procs :
                  /\ writers.proc[p].pc \in {"write", "returned", "crashed"}
                  /\ file = JsonFile(TRUE, writers.proc[p].self)

Holds(f, i) ==
    /\ f.kind = "json"
    /\ \E k \in 1..Len(Stored(f).idf_installed) : Stored(f).idf_installed[k] = i

\* C18 as stated: once both to_file calls have returned Ok, the file holds the
\* new installation of each of the two runs
C18_NoClobber ==
    (writers.pc = "running"
        /\ \A p \in Procs : writers.proc[p].pc = "returned" /\ writers.proc[p].ret = "Ok")
    => \A p \in Procs : Holds(file, writers.proc[p].added)

(***************************************************************************)
(* Claims about remove_single_idf_version when the disk deletion fails.    *)
(***************************************************************************)
DeletionFailures ==
    {"Failed to remove installation folder", "Failed to remove activation script"}

\* C16 as stated: a remove_single_idf_version that fails to delete the
\* installation's directory or its activation script, and returns the error
\* that reports it, has still called remove_installation and to_file
C16_RemovalAttemptedAfterDeletionFailure ==
    (last.op = "remove_single_idf_version" /\ last.err \in DeletionFailures)
    => /\ last.ret = "Err"
       /\ {"remove_installation", "to_file"} \subseteq last.steps

(***************************************************************************)
(* lib::verify_file_checksum(expected_checksum, file_path).  The file is a *)
(* sequence of bytes; Sha256 is modelled by a one-byte digest that, like   *)
(* SHA-256, absorbs its input byte by byte in order and maps many inputs   *)
(* to one value; the checksum is its lower-case hexadecimal text, as       *)
(* format!("{:x}") writes it.  sum is the running call: the arguments, the *)
(* read position, the buffer, the hasher and the return value.             *)
(***************************************************************************)
\* longest file
MaxBytes == 3
\* length of the read buffer (1024 in the code): a read returns at most this
MaxRead == 2

Bytes == {0, 1}
Contents == SeqsUpTo(Bytes, MaxBytes)

\* Sha256::new(), hasher.update(data), hasher.finalize()
Sha256New == 227
Sha256Byte(h, b) == (h * 31 + b + 1) % 256

RECURSIVE Sha256Update(_, _)
Sha256Update(h, data) ==
    IF data = <<>> THEN h
    ELSE Sha256Update(Sha256Byte(h, Head(data)), Tail(data))

\* the digest of a whole byte sequence
Sha256Digest(data) == Sha256Update(Sha256New, data)

\* format!("{:x}", result)
HexDigits == <<"0", "1", "2", "3", "4", "5", "6", "7",
               "8", "9", "a", "b", "c", "d", "e", "f">>
LowerHex(h) == HexDigits[(h \div 16) + 1] \o HexDigits[(h % 16) + 1]

\* the checksums a caller passes: the checksum of some file, the empty
\* string, and an upper-case spelling of the checksum of the empty file
ExpectedChecksums == {LowerHex(Sha256Digest(c)) : c \in Contents} \cup {"", "E3"}

\* mutant: hasher.update(&buffer), the whole buffer and not the bytes read
verify_file_checksum_read_whole_buffer(self, bytes_read) ==
    LET data == SubSeq(self.content, self.pos + 1, self.pos + bytes_read)
        buffer == [k \in 1..MaxRead |->
                      IF k <= bytes_read THEN data[k] ELSE self.buffer[k]]
    IN  IF bytes_read = 0
        THEN [self EXCEPT !.pc = "returned",
                          !.ret = IF LowerHex(self.hasher) = self.expected_checksum
                                  THEN "Ok(true)" ELSE "Ok(false)"]
        ELSE [self EXCEPT !.pos = @ + bytes_read, !.buffer = buffer,
                          !.hasher = Sha256Update(@, buffer)]

\* if !exists return Ok(false); File::open(file_path)?
verify_file_checksum_open(self, opened) ==
    IF ~self.exists THEN [self EXCEPT !.pc = "returned", !.ret = "Ok(false)"]
    ELSE IF ~opened THEN [self EXCEPT !.pc = "returned", !.ret = "Err"]
    ELSE [self EXCEPT !.pc = "read"]

\* one pass of the loop, file.read(&mut buffer) having returned Ok(bytes_read):
\* hasher.update(&buffer[..bytes_read]), or at 0 the comparison of the texts
verify_file_checksum_read(self, bytes_read) ==
    LET data == SubSeq(self.content, self.pos + 1, self.pos + bytes_read)
        buffer == [k \in 1..MaxRead |->
                      IF k <= bytes_read THEN data[k] ELSE self.buffer[k]]
    IN  IF bytes_read = 0
        THEN [self EXCEPT !.pc = "returned",
                          !.ret = IF LowerHex(self.hasher) = self.expected_checksum
                                  THEN "Ok(true)" ELSE "Ok(false)"]
        ELSE [self EXCEPT !.pos = @ + bytes_read, !.buffer = buffer,
                          !.hasher = Sha256Update(@, SubSeq(buffer, 1, bytes_read))]

otherCallsThanSum == <<registryVars, retry, download, repo, writers>>

ChecksumOpen ==
    /\ sum.pc = "open"
    /\ \E opened \in BOOLEAN : sum' = verify_file_checksum_open(sum, opened)
    /\ UNCHANGED otherCallsThanSum

\* read returns 0 at the end of the file only, and otherwise at least one and
\* at most as many bytes as the buffer holds and the file has left
ChecksumRead ==
    /\ sum.pc = "read"
    /\ \E bytes_read \in 0..MaxRead :
           /\ bytes_read <= Len(sum.content) - sum.pos
           /\ bytes_read = 0 => sum.pos = Len(sum.content)
           /\ sum' = verify_file_checksum_read(sum, bytes_read)
    /\ UNCHANGED otherCallsThanSum

\* file.read(&mut buffer)? returns Err
ChecksumReadError ==
    /\ sum.pc = "read"
    /\ sum' = [sum EXCEPT !.pc = "returned", !.ret = "Err", !.failed = TRUE]
    /\ UNCHANGED otherCallsThanSum

InitChecksum ==
    /\ RegistryIdle
    /\ \E expected \in ExpectedChecksums, exists \in BOOLEAN, content \in Contents :
           /\ ~exists => content = <<>>
           /\ sum = [pc |-> "open", expected_checksum |-> expected,
                     exists |-> exists, content |-> content, pos |-> 0,
                     buffer |-> [k \in 1..MaxRead |-> 0], hasher |-> Sha256New,
                     failed |-> FALSE, ret |-> "none"]
    /\ retry = Idle
    /\ download = Idle
    /\ repo = Idle
    /\ writers = Idle

NextChecksum ==
    \/ ChecksumOpen
    \/ ChecksumRead
    \/ ChecksumReadError

SpecChecksum == InitChecksum /\ [][NextChecksum]_vars

(***************************************************************************)
(* Claims about verify_file_checksum.                                      *)
(***************************************************************************)
\* C19: a call on a path with no file returns Ok(false); a call on a file
\* that was opened and read without error returns Ok(true) when the checksum
\* of the file's whole contents is the expected text and Ok(false) otherwise
C19_ChecksumVerdict ==
    sum.pc = "returned" =>
        /\ ~sum.exists => sum.ret = "Ok(false)"
        /\ (sum.exists /\ sum.ret # "Err") =>
              sum.ret = (IF LowerHex(Sha256Digest(sum.content)) = sum.expected_checksum
                         THEN "Ok(true)" ELSE "Ok(false)")
        /\ sum.ret = "Err" => sum.exists /\ (sum.failed \/ sum.pos = 0)

\* a file longer than the buffer, read in several pieces, matches its checksum
C19_Witness ==
    /\ sum.pc = "returned"
    /\ sum.ret = "Ok(true)"
    /\ Len(sum.content) = MaxBytes
    /\ sum.content[1] # sum.content[MaxBytes]

(***************************************************************************)
(* lib::shallow_clone(url, path, branch, tag, tx, recurse_submodules) and  *)
(* update_submodules, one action per call into git2 and per message sent.  *)
(* The submodules of the cloned repository, at every nesting depth, are a  *)
(* forest; tree lists the nesting depth of each submodule in the order a   *)
(* depth-first walk meets them (<<1, 2, 1>>: a submodule with a submodule  *)
(* of its own, then a second top-level one), and a submodule is named by   *)
(* its index in tree; 0 names the cloned repository itself.  repo is the   *)
(* running call: the arguments, the depth limit of the fetch (0: none),    *)
(* the frames of update_submodules_recursive (the repository a frame walks *)
(* and the submodules its loop has still to visit), the submodule at hand  *)
(* (current), the submodules updated so far in order (fetched), the        *)
(* submodule whose update or open failed (failed, 0: none) and the         *)
(* messages sent on tx (events).                                           *)
(***************************************************************************)
\* most submodules of a repository, all nesting depths together
MaxSubmodules == 3
\* most transfer_progress callbacks of one call
MaxUpdates == 1
\* most objects of a transfer
MaxObjects == 1

SubmoduleTrees ==
    {t \in SeqsUpTo(1..MaxSubmodules, MaxSubmodules) :
        /\ Len(t) > 0 => t[1] = 1
        /\ \A k \in 1..(Len(t) - 1) : t[k + 1] <= t[k] + 1}

NestingDepth(t, n) == IF n = 0 THEN 0 ELSE t[n]

\* repo.submodules() of the repository n: its own submodules, in order
SubmodulesOf(t, n) ==
    {j \in (n + 1)..Len(t) :
        /\ t[j] = NestingDepth(t, n) + 1
        /\ \A k \in (n + 1)..(j - 1) : t[k] > NestingDepth(t, n)}

RECURSIVE InOrder(_)
InOrder(S) ==
    IF S = {} THEN <<>>
    ELSE LET m == CHOOSE x \in S : \A y \in S : x <= y
         IN  <<m>> \o InOrder(S \ {m})

\* enum ProgressMessage
Update(val) == [kind |-> "Update", val |-> val]
Finish == [kind |-> "Finish", val |-> 0]

\* the value the transfer_progress callback sends: received / total * 100 as
\* u64 (0 / 0 is NaN, which the cast turns into 0)
Percent(received, total) == IF total = 0 THEN 0 ELSE (received * 100) \div total

\* tx.send(msg).unwrap(): panics once the receiver is gone
TxSend(self, msg) ==
    IF self.rx_alive THEN [self EXCEPT !.events = Append(@, msg)]
    ELSE [self EXCEPT !.pc = "panicked"]

RepoReturned(self, ret) == [self EXCEPT !.pc = "returned", !.ret = ret]

\* the checkouts are done: Ok(repo) without recurse_submodules
shallow_clone_checked_out(self) ==
    IF self.recurse_submodules THEN [self EXCEPT !.pc = "submodules"]
    ELSE RepoReturned(self, "Ok")

\* mutant: depth(1) only when a branch is named
fetch_depth_branch_only(branch, tag) == IF branch THEN 1 ELSE 0

\* let mut fo = FetchOptions::new(); if tag.is_none() { fo.depth(1); }
\* 0 is a fetch with no depth limit
fetch_depth(branch, tag) == IF tag THEN 0 ELSE 1

\* builder.clone(url, path)? with these FetchOptions
shallow_clone_clone(self, ok) ==
    IF ~ok THEN RepoReturned(self, "Err")
    ELSE IF self.tag THEN [self EXCEPT !.cloned = TRUE, !.pc = "tag"]
    ELSE IF self.branch THEN [self EXCEPT !.cloned = TRUE, !.pc = "branch"]
    ELSE shallow_clone_checked_out([self EXCEPT !.cloned = TRUE])

\* find_reference, peel, checkout_tree, set_head_detached of the tag
shallow_clone_tag(self, ok) ==
    IF ~ok THEN RepoReturned(self, "Err")
    ELSE IF self.branch THEN [self EXCEPT !.pc = "branch"]
    ELSE shallow_clone_checked_out(self)

\* revparse_single, checkout_tree, set_head of the branch
shallow_clone_branch(self, ok) ==
    IF ~ok THEN RepoReturned(self, "Err") ELSE shallow_clone_checked_out(self)

\* tx.send(Finish).unwrap(); update_submodules: repo.submodules()? of the clone
shallow_clone_submodules(self, listed) ==
    LET sent == TxSend(self, Finish)
    IN  IF sent.pc = "panicked" THEN sent
        ELSE IF ~listed THEN RepoReturned(sent, "Err")
        ELSE [sent EXCEPT !.pc = "walk",
                          !.frames = <<[repo |-> 0,
                                        rest |-> InOrder(SubmodulesOf(self.tree, 0))]>>]

\* the for loop of update_submodules_recursive in the innermost frame: the
\* next submodule and tx.send(Finish).unwrap(), or Ok(()) to the caller
update_submodules_next(self) ==
    LET top == self.frames[Len(self.frames)]
        popped == [self EXCEPT !.frames = SubSeq(@, 1, Len(@) - 1)]
        sent == TxSend(self, Finish)
    IN  IF top.rest = <<>>
        THEN IF Len(self.frames) = 1 THEN RepoReturned(popped, "Ok") ELSE popped
        ELSE IF sent.pc = "panicked" THEN sent
        ELSE [sent EXCEPT !.frames[Len(self.frames)].rest = Tail(@),
                          !.current = Head(top.rest), !.pc = "update"]

\* mutant: the error of submodule.update is dropped and the loop goes on
update_submodules_update_ignore_error(self, ok) ==
    IF ~ok THEN [self EXCEPT !.failed = self.current, !.pc = "walk"]
    ELSE [self EXCEPT !.fetched = Append(@, self.current), !.pc = "open"]

\* submodule.update(true, Some(fetch_options))?
update_submodules_update(self, ok) ==
    IF ~ok THEN RepoReturned([self EXCEPT !.failed = self.current], "Err")
    ELSE [self EXCEPT !.fetched = Append(@, self.current), !.pc = "open"]

\* submodule.open()? and the recursive call: repo.submodules()? of the submodule
update_submodules_open(self, opened, listed) ==
    IF ~opened THEN RepoReturned([self EXCEPT !.failed = self.current], "Err")
    ELSE IF ~listed THEN RepoReturned(self, "Err")
    ELSE [self EXCEPT !.pc = "walk",
                      !.frames = Append(@, [repo |-> self.current,
                                            rest |-> InOrder(SubmodulesOf(self.tree,
                                                                          self.current))])]

\* the transfer_progress callback of a fetch
transfer_progress(self, received, total) ==
    LET sent == TxSend(self, Update(Percent(received, total)))
    IN  IF sent.pc = "panicked" THEN sent ELSE [sent EXCEPT !.updates = @ + 1]

otherCallsThanRepo == <<registryVars, retry, download, writers, sum>>

CloneClone ==
    /\ repo.pc = "clone"
    /\ \E ok \in BOOLEAN : repo' = shallow_clone_clone(repo, ok)
    /\ UNCHANGED otherCallsThanRepo

CloneTag ==
    /\ repo.pc = "tag"
    /\ \E ok \in BOOLEAN : repo' = shallow_clone_tag(repo, ok)
    /\ UNCHANGED otherCallsThanRepo

CloneBranch ==
    /\ repo.pc = "branch"
    /\ \E ok \in BOOLEAN : repo' = shallow_clone_branch(repo, ok)
    /\ UNCHANGED otherCallsThanRepo

CloneSubmodules ==
    /\ repo.pc = "submodules"
    /\ \E listed \in BOOLEAN : repo' = shallow_clone_submodules(repo, listed)
    /\ UNCHANGED otherCallsThanRepo

SubmoduleNext ==
    /\ repo.pc = "walk"
    /\ repo' = update_submodules_next(repo)
    /\ UNCHANGED otherCallsThanRepo

SubmoduleUpdate ==
    /\ repo.pc = "update"
    /\ \E ok \in BOOLEAN : repo' = update_submodules_update(repo, ok)
    /\ UNCHANGED otherCallsThanRepo

SubmoduleOpen ==
    /\ repo.pc = "open"
    /\ \E opened \in BOOLEAN, listed \in BOOLEAN :
           repo' = update_submodules_open(repo, opened, listed)
    /\ UNCHANGED otherCallsThanRepo

\* git2 calls the callback while the clone or a submodule's update fetches
TransferProgress ==
    /\ repo.pc \in {"clone", "update"}
    /\ repo.updates < MaxUpdates
    /\ \E total \in 0..MaxObjects, received \in 0..MaxObjects :
           /\ received <= total
           /\ repo' = transfer_progress(repo, received, total)
    /\ UNCHANGED otherCallsThanRepo

\* the other end of tx: the Receiver is dropped
DropProgressReceiver ==
    /\ repo.pc \notin {"returned", "panicked"}
    /\ repo.rx_alive
    /\ repo' = [repo EXCEPT !.rx_alive = FALSE]
    /\ UNCHANGED otherCallsThanRepo

InitClone ==
    /\ RegistryIdle
    /\ \E branch \in BOOLEAN, tag \in BOOLEAN, recurse_submodules \in BOOLEAN,
          tree \in SubmoduleTrees :
           repo = [pc |-> "clone", branch |-> branch, tag |-> tag,
                   recurse_submodules |-> recurse_submodules, tree |-> tree,
                   depth |-> fetch_depth(branch, tag), cloned |-> FALSE,
                   frames |-> <<>>, current |-> 0, fetched |-> <<>>,
                   failed |-> 0, events |-> <<>>, updates |-> 0,
                   rx_alive |-> TRUE, ret |-> "none"]
    /\ retry = Idle
    /\ download = Idle
    /\ writers = Idle
    /\ sum = Idle

NextClone ==
    \/ CloneClone
    \/ CloneTag
    \/ CloneBranch
    \/ CloneSubmodules
    \/ SubmoduleNext
    \/ SubmoduleUpdate
    \/ SubmoduleOpen
    \/ TransferProgress
    \/ DropProgressReceiver

SpecClone == InitClone /\ [][NextClone]_vars

(***************************************************************************)
(* Claims about shallow_clone with recurse_submodules.                     *)
(***************************************************************************)
\* C20: once the update or the open of a submodule has failed, at whatever
\* nesting depth, shallow_clone has returned Err, and the submodules fetched
\* are the ones the depth-first walk meets before the failing one (and the
\* failing one itself when it was its open that failed), each once, in order
C20_NestedFailureAborts ==
    (repo.pc # "idle" /\ repo.failed # 0) =>
        /\ repo.pc = "returned"
        /\ repo.ret = "Err"
        /\ \A k \in 1..Len(repo.fetched) :
              /\ repo.fetched[k] = k
              /\ repo.fetched[k] <= repo.failed
        /\ Len(repo.fetched) >= repo.failed - 1

\* the update of a nested submodule failed and a later submodule was left
C20_Witness ==
    /\ repo.pc = "returned"
    /\ repo.failed = 2
    /\ repo.tree = <<1, 2, 1>>
    /\ repo.fetched = <<1>>

\* C21: the clone of shallow_clone fetches with a depth limit, of 1, exactly
\* when no tag is given, whatever the branch argument is
C21_DepthLimitUnlessTag ==
    repo.pc # "idle" =>
        /\ ~repo.tag => repo.depth = 1
        /\ repo.tag => repo.depth = 0

\* a clone of the default branch (no branch, no tag) was fetched with depth 1
C21_Witness ==
    /\ repo.cloned
    /\ ~repo.branch
    /\ ~repo.tag
    /\ repo.depth = 1

FinishEvents == {k \in 1..Len(repo.events) : repo.events[k].kind = "Finish"}

\* C24 as stated: a shallow_clone that has returned Ok has sent exactly one
\* Finish, and it is the last message it sent (no Update follows it)
C24_OneFinishLast ==
    (repo.pc = "returned" /\ repo.ret = "Ok") =>
        FinishEvents = {Len(repo.events)} /\ Len(repo.events) >= 1

(***************************************************************************)
(* idf_tools::change_links_donwanload_mirror and the URL built by          *)
(* lib::get_esp_idf_by_tag_name.  A URL is a sequence of pieces of text;   *)
(* the text "https://github.com" is the two pieces GitHub, so that a URL   *)
(* may hold it at its start, further in, or only in part.  last records    *)
(* the call: arg its arguments and out what it returned.                   *)
(***************************************************************************)
\* longest URL, in pieces
MaxUrlLen == 3
\* most entries of the tools map
MaxTools == 1

Pieces == {"https:", "//github.com", "//example.com", "/tool"}
Urls == SeqsUpTo(Pieces, MaxUrlLen)

\* the literal "https://github.com"
GitHub == <<"https:", "//github.com">>

\* Option<&str>: a mirror, or None
NoMirror == [some |-> FALSE, url |-> <<>>]
SomeMirror(url) == [some |-> TRUE, url |-> url]
Mirrors ==
    {NoMirror, SomeMirror(<<"https:", "//dl.espressif.com">>),
     SomeMirror(<<"https:", "//github.com", ".mirror">>), SomeMirror(<<>>)}

\* str::starts_with
StartsWith(s, prefix) ==
    Len(prefix) <= Len(s) /\ SubSeq(s, 1, Len(prefix)) = prefix

\* str::replace(from, to): every non-overlapping match of from, left to right
RECURSIVE Replace(_, _, _)
Replace(s, from, to) ==
    IF s = <<>> THEN <<>>
    ELSE IF StartsWith(s, from)
    THEN to \o Replace(SubSeq(s, Len(from) + 1, Len(s)), from, to)
    ELSE <<Head(s)>> \o Replace(Tail(s), from, to)

\* struct Download
Downloads ==
    [sha256 : {"abc123"}, size : {1024}, url : Urls, rename_dist : {"None", "Some(d)"}]

ToolNames == {"tool1", "tool2"}

\* HashMap<String, Download> of at most MaxTools entries
ToolMaps ==
    UNION {[N -> Downloads] : N \in {M \in SUBSET ToolNames : Cardinality(M) <= MaxTools}}

change_links_donwanload_mirror(tools, mirror) ==
    [name \in DOMAIN tools |->
        IF mirror.some
        THEN [sha256 |-> tools[name].sha256,
              size |-> tools[name].size,
              url |-> Replace(tools[name].url, GitHub, mirror.url),
              rename_dist |-> tools[name].rename_dist]
        ELSE tools[name]]

\* the url of get_esp_idf_by_tag_name; group is the text "/" and the group name
Groups == {<<"/espressif">>, <<"/tool">>}

esp_idf_url(mirror, group) ==
    IF mirror.some
    THEN Replace(GitHub \o group \o <<"/esp-idf.git">>, GitHub, mirror.url)
    ELSE GitHub \o <<"/espressif">> \o <<"/esp-idf.git">>

ChangeLinksDownloadMirror ==
    /\ \E tools \in ToolMaps, mirror \in Mirrors :
           last' = [NoCall EXCEPT !.op = "change_links_donwanload_mirror",
                                  !.arg = [tools |-> tools, mirror |-> mirror],
                                  !.out = change_links_donwanload_mirror(tools, mirror)]
    /\ UNCHANGED <<config, file, disk, calls, callVars>>

GetEspIdfUrl ==
    /\ \E mirror \in Mirrors, group \in Groups :
           last' = [NoCall EXCEPT !.op = "get_esp_idf_by_tag_name",
                                  !.arg = [group |-> group, mirror |-> mirror],
                                  !.out = esp_idf_url(mirror, group)]
    /\ UNCHANGED <<config, file, disk, calls, callVars>>

InitMirror == RegistryIdle /\ CallsIdle

NextMirror ==
    \/ ChangeLinksDownloadMirror
    \/ GetEspIdfUrl

SpecMirror == InitMirror /\ [][NextMirror]_vars

\* C22 as stated: change_links_donwanload_mirror keeps the tool names and each
\* entry's sha256, size and rename_dist; with no mirror it keeps every url;
\* with a mirror it replaces the leading "https://github.com" of a url by the
\* mirror and keeps every url that does not start with it
C22_PrefixReplacement ==
    last.op = "change_links_donwanload_mirror" =>
        /\ DOMAIN last.out = DOMAIN last.arg.tools
        /\ \A name \in DOMAIN last.arg.tools :
              LET link == last.arg.tools[name]
                  new_link == last.out[name]
              IN  /\ new_link.sha256 = link.sha256
                  /\ new_link.size = link.size
                  /\ new_link.rename_dist = link.rename_dist
                  /\ new_link.url =
                        IF last.arg.mirror.some /\ StartsWith(link.url, GitHub)
                        THEN last.arg.mirror.url
                                 \o SubSeq(link.url, Len(GitHub) + 1, Len(link.url))
                        ELSE link.url

(***************************************************************************)
(* utils::filter_subpaths.  A path is its sequence of characters, for      *)
(* String::starts_with compares characters and not path components.        *)
(***************************************************************************)
\* longest path, in characters
MaxPathLen == 4
\* longest list of paths
MaxPaths == 2

PathChars == {"/", "d", "2"}

\* absolute paths with no empty component and no trailing separator
Paths ==
    {p \in SeqsUpTo(PathChars, MaxPathLen) :
        /\ Len(p) >= 2
        /\ p[1] = "/"
        /\ p[Len(p)] # "/"
        /\ \A k \in 1..(Len(p) - 1) : ~(p[k] = "/" /\ p[k + 1] = "/")}

PathLists == SeqsUpTo(Paths, MaxPaths)

\* filtered.retain(|other| !other.starts_with(&path))
RECURSIVE Retain(_, _)
Retain(filtered, path) ==
    IF filtered = <<>> THEN <<>>
    ELSE IF StartsWith(Head(filtered), path)
    THEN Retain(Tail(filtered), path)
    ELSE <<Head(filtered)>> \o Retain(Tail(filtered), path)

\* one turn of the 'outer loop
filter_subpaths_path(filtered, path) ==
    IF \E k \in 1..Len(filtered) : StartsWith(path, filtered[k])
    THEN filtered
    ELSE Append(Retain(filtered, path), path)

RECURSIVE filter_subpaths_loop(_, _)
filter_subpaths_loop(filtered, paths) ==
    IF paths = <<>> THEN filtered
    ELSE filter_subpaths_loop(filter_subpaths_path(filtered, Head(paths)), Tail(paths))

filter_subpaths(paths) == filter_subpaths_loop(<<>>, paths)

FilterSubpaths ==
    /\ \E paths \in PathLists :
           last' = [NoCall EXCEPT !.op = "filter_subpaths",
                                  !.arg = paths,
                                  !.out = filter_subpaths(paths)]
    /\ UNCHANGED <<config, file, disk, calls, callVars>>

InitSubpaths == RegistryIdle /\ CallsIdle

SpecSubpaths == InitSubpaths /\ [][FilterSubpaths]_vars

Range(s) == {s[k] : k \in 1..Len(s)}

\* path lies inside other: other and a separator begin it
Inside(path, other) == StartsWith(path, other \o <<"/">>)

\* C23 as stated: filter_subpaths returns exactly the input paths that do not
\* lie, by whole path components, inside another input path
C23_TopLevelOnly ==
    last.op = "filter_subpaths" =>
        Range(last.out) =
            {p \in Range(last.arg) : ~\E q \in Range(last.arg) : Inside(p, q)}

\* C25: a successful to_file to a path that holds a registry file leaves in
\* memory the previous installations followed by the installations the file
\* held, git_path and idf_selected_id as they were, and from_file of the path
\* then returns a registry equal to the one in memory
C25_ExistingFileAppended ==
    (last.op = "to_file" /\ Exists(last.preFile) /\ last.ret = "Ok") =>
        /\ config.idf_installed =
               last.pre.idf_installed \o Stored(last.preFile).idf_installed
        /\ config.git_path = last.pre.git_path
        /\ config.idf_selected_id = last.pre.idf_selected_id
        /\ from_file(file, "none").ret = "Ok"
        /\ from_file(file, "none").config = config

C25_Witness ==
    /\ last.op = "to_file"
    /\ last.ret = "Ok"
    /\ Exists(last.preFile)
    /\ Len(last.pre.idf_installed) >= 1
    /\ Len(Stored(last.preFile).idf_installed) >= 1
    /\ last.pre.idf_installed[1] # Stored(last.preFile).idf_installed[1]
    /\ Len(Stored(file).idf_installed) >= 2

\* C29: to_file to a path whose file exists but cannot be read or parsed
\* returns an error and leaves the file and the registry in memory as they were
C29_UnreadableFileUntouched ==
    (/\ last.op = "to_file"
     /\ Exists(last.preFile)
     /\ from_file(last.preFile, last.fault).ret = "Err") =>
        /\ last.ret = "Err"
        /\ file = last.preFile
        /\ config = last.pre

C29_Witness ==
    /\ last.op = "to_file"
    /\ last.preFile = CorruptFile
    /\ last.fault = "none"
    /\ Len(last.pre.idf_installed) >= 1
    /\ last.ret = "Err"

\* C26: select_idf_version and rename_idf_version return an error and leave
\* the registry file as it was when no installation of the registry they
\* loaded has an id or a name equal to the identifier
C26_NoMatchNoWrite ==
    (/\ last.op \in {"select_idf_version", "rename_idf_version"}
     /\ from_file(last.preFile, LoadFault(last.fault)).ret = "Ok"
     /\ MatchSet(Stored(last.preFile), last.identifier) = {}) =>
        /\ last.ret = "Err"
        /\ file = last.preFile

C26_Witness ==
    /\ last.op = "rename_idf_version"
    /\ last.fault = "none"
    /\ Len(Stored(last.preFile).idf_installed) >= 1
    /\ MatchSet(Stored(last.preFile), last.identifier) = {}
    /\ last.ret = "Err"

(***************************************************************************)
(* utils::parse_tool_set_config: the tool sets of a configuration file are *)
(* added to the registry file at the default path.  last.arg is the        *)
(* configuration file the call was given.                                  *)
(***************************************************************************)
\* most tool sets in a configuration file
MaxToolSets == 2

\* struct IdfToolsConfig; envVars tells whether IDF_PYTHON_ENV_PATH (below a
\* python_env directory) and PATH are both there
\* one source tree per id, as in the registry files
IdfToolsConfig ==
    {t \in [id : {1, 2}, idfLocation : InstallPaths, idfVersion : {"v1"},
            systemPythonExecutablePath : {PythonPath}, envVars : {"ok", "missing"}] :
        \/ t.id = 1 /\ t.idfLocation = "/i1/esp-idf"
        \/ t.id = 2 /\ t.idfLocation = "/i2/esp-idf"}

\* the configuration file: none, one that does not parse, or a list of tool sets
ToolSetFiles ==
    {[kind |-> "absent", tool_sets |-> <<>>], [kind |-> "corrupt", tool_sets |-> <<>>]} \cup
    {[kind |-> "json", tool_sets |-> t] : t \in SeqsUpTo(IdfToolsConfig, MaxToolSets)}

\* i64::to_string
id_to_string(n) == CASE n = 1 -> "1" [] n = 2 -> "2" [] OTHER -> "0"

\* format!("{}/{}", dir, format!("activate_idf_{}.sh", idf_version))
ActivationScript(dir, idf_version) ==
    CASE dir = "/i1" -> "/i1/activate_idf_v1.sh"
      [] dir = "/i2" -> "/i2/activate_idf_v1.sh"
      [] OTHER -> "/activate_idf_v1.sh"

ParseFaults == SaveFaults \cup {"script"}

\* the script is written to the parent of the version directory; an error of
\* writing it is dropped
single_version_post_install(d, version_path, idf_version, fault) ==
    IF fault = "script" THEN d
    ELSE d \cup {ActivationScript(Parent(version_path), idf_version)}

\* the body of `for tool_set in config`: every way through it returns
parse_tool_set_config_tool_set(tool_set, f, d, fault) ==
    LET version_path == Parent(tool_set.idfLocation)
        installed == single_version_post_install(d, version_path, tool_set.idfVersion, fault)
        installation ==
            [id |-> id_to_string(tool_set.id),
             activation_script |-> ActivationScript(version_path, tool_set.idfVersion),
             path |-> tool_set.idfLocation,
             name |-> tool_set.idfVersion,
             python |-> tool_set.systemPythonExecutablePath,
             idf_tools_path |-> ToolsPath]
        loaded == from_file(f, LoadFault(fault))
        current_config ==
            [loaded.config EXCEPT !.idf_installed = Append(@, installation)]
        saved == to_file(current_config, f, TRUE, fault)
    IN  IF tool_set.envVars = "missing"
        THEN [ret |-> "panic", file |-> f, disk |-> d]
        ELSE IF loaded.ret = "Err"
        THEN [ret |-> "Err", file |-> f, disk |-> installed]
        ELSE [ret |-> saved.ret, file |-> saved.file, disk |-> installed]

parse_tool_set_config(tools, f, d, fault) ==
    IF tools.kind = "absent" THEN [ret |-> "panic", file |-> f, disk |-> d]
    ELSE IF tools.kind = "corrupt" THEN [ret |-> "Err", file |-> f, disk |-> d]
    ELSE IF tools.tool_sets = <<>> THEN [ret |-> "Ok", file |-> f, disk |-> d]
    ELSE parse_tool_set_config_tool_set(Head(tools.tool_sets), f, d, fault)

ParseToolSetConfig ==
    \E tools \in ToolSetFiles, fault \in ParseFaults :
        LET r == parse_tool_set_config(tools, file, disk, fault)
        IN  /\ calls < MaxCalls
            /\ FileLen(r.file) <= MaxFileLen
            /\ calls' = calls + 1
            /\ file' = r.file
            /\ disk' = r.disk
            /\ last' = [NoCall EXCEPT !.op = "parse_tool_set_config",
                                      !.arg = tools, !.fault = fault,
                                      !.preFile = file, !.preDisk = disk,
                                      !.ret = r.ret]
            /\ UNCHANGED config
            /\ UNCHANGED callVars

InitToolSets ==
    /\ config = EmptyConfig
    /\ file \in {f \in RegistryFiles(MaxMemInstalled) : f.pretty = (f.kind = "json")}
    /\ disk = FsPaths
    /\ calls = 0
    /\ last = NoCall
    /\ CallsIdle

SpecToolSets == InitToolSets /\ [][ParseToolSetConfig]_vars

\* C27 as stated: when parse_tool_set_config returns Ok on a configuration
\* file of n tool sets and a readable registry file, the registry file holds for every one of the n tool
\* sets an installation with that tool set's id, location and version
C27_EveryToolSetAdded ==
    (/\ last.op = "parse_tool_set_config"
     /\ from_file(last.preFile, "none").ret = "Ok"
     /\ last.ret = "Ok") =>
        /\ from_file(file, "none").ret = "Ok"
        /\ \A k \in 1..Len(last.arg.tool_sets) :
              \E j \in 1..Len(Stored(file).idf_installed) :
                  /\ Stored(file).idf_installed[j].id = id_to_string(last.arg.tool_sets[k].id)
                  /\ Stored(file).idf_installed[j].path = last.arg.tool_sets[k].idfLocation
                  /\ Stored(file).idf_installed[j].name = last.arg.tool_sets[k].idfVersion

(***************************************************************************)
(* settings::Settings::save_esp_ide_json, with the three functions of      *)
(* version_manager on the registry file of one path.  The Settings have    *)
(* path "/" and tool_install_folder_name "tools".                          *)
(***************************************************************************)
\* most versions in Settings::idf_versions
MaxVersions == 1

SettingsVersions == {"i1", "i2"}

\* format!("esp-idf-{}", Uuid::new_v4()): an id no installation has yet
NewIds == {"esp-idf-u1", "esp-idf-u2"}

\* base_path.join(version).join("esp-idf")
IdfPath(version) == IF version = "i1" THEN "/i1/esp-idf" ELSE "/i2/esp-idf"

\* base_path.join(version).join(tool_install_folder_name)
SettingsToolsPath(version) == IF version = "i1" THEN "/i1/tools" ELSE "/i2/tools"

\* tools_path.join("python").join("bin").join("python3")
SettingsPythonPath(version) ==
    IF version = "i1" THEN "/i1/tools/python/bin/python3"
    ELSE "/i2/tools/python/bin/python3"

\* base_path.join(format!("activate_idf_{}.sh", version))
SettingsActivationScript(version) ==
    IF version = "i1" THEN "/activate_idf_i1.sh" ELSE "/activate_idf_i2.sh"

SaveJsonFaults == {"none", "git", "ensure_path", "read", "open", "write"}

\* ids[k] is the id made for idf_versions[k]
save_esp_ide_json(f, idf_versions, ids, fault) ==
    LET idf_installations ==
            [k \in 1..Len(idf_versions) |->
                [id |-> ids[k],
                 name |-> idf_versions[k],
                 path |-> IdfPath(idf_versions[k]),
                 python |-> SettingsPythonPath(idf_versions[k]),
                 idf_tools_path |-> SettingsToolsPath(idf_versions[k]),
                 activation_script |-> SettingsActivationScript(idf_versions[k])]]
        new_config ==
            [git_path |-> GitPath,
             idf_selected_id |-> IF idf_installations = <<>> THEN ""
                                 ELSE idf_installations[1].id,
             idf_installed |-> idf_installations]
        saved == to_file(new_config, f, TRUE, fault)
    IN  IF fault = "git" THEN [ret |-> "Err", file |-> f]
        ELSE [ret |-> saved.ret, file |-> saved.file]

FileIds(f) == {f.value.idfInstalled[k].id : k \in 1..Len(f.value.idfInstalled)}

SaveEspIdeJson ==
    \E idf_versions \in SeqsUpTo(SettingsVersions, MaxVersions),
       ids \in SeqsUpTo(NewIds, MaxVersions), fault \in SaveJsonFaults :
        LET r == save_esp_ide_json(file, idf_versions, ids, fault)
        IN  /\ calls < MaxCalls
            /\ Len(ids) = Len(idf_versions)
            /\ \A k \in 1..Len(ids) : ids[k] \notin FileIds(file)
            /\ \A j, k \in 1..Len(ids) : j # k => ids[j] # ids[k]
            /\ FileLen(r.file) <= MaxFileLen
            /\ calls' = calls + 1
            /\ file' = r.file
            /\ last' = [NoCall EXCEPT !.op = "save_esp_ide_json",
                                      !.arg = idf_versions, !.fault = fault,
                                      !.preFile = file, !.preDisk = disk,
                                      !.ret = r.ret]
            /\ UNCHANGED <<config, disk>>
            /\ UNCHANGED callVars

\* one call fewer than MaxCalls, from any registry file the library writes
NextRegistryFile ==
    /\ calls + 1 < MaxCalls
    /\ \/ SelectIdfVersion
       \/ RenameIdfVersion
       \/ RemoveSingleIdfVersion
       \/ SaveEspIdeJson

SpecRegistryFile == InitVersions /\ [][NextRegistryFile]_vars

FileWriters ==
    {"select_idf_version", "rename_idf_version", "remove_single_idf_version",
     "save_esp_ide_json"}

SideBySideInstallation ==
    FileInstallation \cup
    {[activation_script |-> ScriptPath, id |-> "b", idf_tools_path |-> ToolsPath,
      name |-> name, path |-> "/i1/esp-idf-v2", python |-> PythonPath] : name \in Names}

DistinctPaths(installed) ==
    \A j, k \in 1..Len(installed) : j # k => installed[j].path # installed[k].path

\* a registry file of installations with pairwise distinct ids and paths, and
\* every directory and script in place
InitRemove ==
    /\ config = EmptyConfig
    /\ file \in {JsonFile(TRUE, c) :
                    c \in {r \in IdfConfig(SideBySideInstallation, MaxFileInstalled, SelectedIds) :
                              /\ DistinctIds(r.idf_installed)
                              /\ DistinctPaths(r.idf_installed)}}
    /\ disk = FsPaths
    /\ calls = 0
    /\ last = NoCall
    /\ CallsIdle

SpecRemove == InitRemove /\ [][RemoveSingleIdfVersion]_vars

\* C30 as stated: after remove_single_idf_version on a registry whose
\* installations have pairwise distinct paths, whatever it returns, the source
\* tree of every installation other than the matched one is still on disk
C30_OtherSourceTreesKept ==
    (/\ last.op = "remove_single_idf_version"
     /\ from_file(last.preFile, "none").ret = "Ok"
     /\ DistinctPaths(Stored(last.preFile).idf_installed)) =>
        \A k \in 1..Len(Stored(last.preFile).idf_installed) :
            (/\ k # Position(Stored(last.preFile).idf_installed, last.identifier)
             /\ Stored(last.preFile).idf_installed[k].path \in last.preDisk) =>
                Stored(last.preFile).idf_installed[k].path \in disk

====
